---------------------------- MODULE Spec2Model ----------------------------
(***************************************************************************)
(* Model of update_licenses.py: the traversal of the four extension globs, *)
(* the exclusion filter, and update_file's read / signature test / regex   *)
(* substitution / write, with the file handles and the printed lines.      *)
(*                                                                         *)
(* Text is a sequence of tokens.  A token stands for a run of characters   *)
(* that the regular expression and the signature test treat as a unit:     *)
(*   "O"  the comment opener  /**                                          *)
(*   "E"  the comment closer  */                                           *)
(*   "S"  a star  *                                                        *)
(*   "N"  a line feed, "R" a carriage return, "W" blanks or tabs           *)
(*   "C"  the text  Copyright (c) dddd Philip L. Giacalone                 *)
(*   "P"  the text  Permission is hereby granted                           *)
(*   "X"  any other text (no star, slash, blank or line break in it)       *)
(* A path is a sequence of name pieces and "/" separators.                 *)
(*                                                                         *)
(* The environment: the script runs on a POSIX platform (os.linesep is a   *)
(* line feed, str(path) uses "/"); a glob lists the entries in a fixed     *)
(* order; whether a file can be opened, decoded or written, and whether an *)
(* entry can be stat'ed, is a property of the tree and the same in every   *)
(* run.  A write that raises leaves the file truncated by open(.., 'w'):   *)
(* empty, or holding the blocks written before the error.                  *)
(***************************************************************************)
EXTENDS Naturals, Sequences, FiniteSets

(***************************************************************************)
(* Bounds of the model.                                                    *)
(***************************************************************************)
\* number of chunks the varied file's content is made of
MaxChunks == 2
\* number of times the tool is run on the tree
MaxRuns == 2
\* a failed write leaves the first k * BlockSize tokens of the new content
BlockSize == 24

(***************************************************************************)
(* Text helpers.                                                           *)
(***************************************************************************)
NL == <<"N">>

\* os.linesep of the platform the script runs on (POSIX)
linesep == <<"N">>

IsWs(t) == t \in {"W", "N", "R"}

RECURSIVE Concat(_)
Concat(ss) == IF ss = <<>> THEN <<>> ELSE Head(ss) \o Concat(Tail(ss))

\* text with every line feed replaced by nl
RECURSIVE ReplaceNl(_, _, _, _)
ReplaceNl(text, nl, lo, hi) ==
    IF lo > hi THEN <<>>
    ELSE IF lo = hi THEN (IF text[lo] = "N" THEN nl ELSE <<text[lo]>>)
    ELSE LET mid == (lo + hi) \div 2
         IN  ReplaceNl(text, nl, lo, mid) \o ReplaceNl(text, nl, mid + 1, hi)

\* s[i..] and s[..i]
From(s, i) == SubSeq(s, i, Len(s))
Upto(s, i) == SubSeq(s, 1, i)

\* sub occurs in s as a contiguous run:  sub in s
Contains(s, sub) ==
    \E i \in 1..(Len(s) + 1) :
        /\ i + Len(sub) - 1 <= Len(s)
        /\ SubSeq(s, i, i + Len(sub) - 1) = sub

EndsWith(s, suf) ==
    /\ Len(suf) <= Len(s)
    /\ SubSeq(s, Len(s) - Len(suf) + 1, Len(s)) = suf

(***************************************************************************)
(* PROPRIETARY_HEADER, line by line.                                       *)
(***************************************************************************)
StarText == <<"W", "S", "W", "X", "N">>
StarOnly == <<"W", "S", "N">>

PROPRIETARY_HEADER ==
    Concat(<< <<"O", "N">>,
              <<"W", "S", "W", "C", "X", "N">>,
              StarOnly,
              StarText, StarText,
              StarOnly,
              StarText, StarText, StarText,
              StarOnly,
              StarText, StarText,
              <<"W", "E">> >>)

\* the replacement string of the substitution
Replacement == PROPRIETARY_HEADER \o NL \o NL

(***************************************************************************)
(* MIT_LICENSE_PATTERN, as the backtracking matcher runs it.  Positions    *)
(* are 1-based; 0 stands for "no match".                                   *)
(***************************************************************************)
At(s, i, t) == i <= Len(s) /\ s[i] = t

\* \s* taken greedily from i: the first position that is not white space
RECURSIVE SkipWs(_, _)
SkipWs(s, i) ==
    IF i <= Len(s) /\ IsWs(s[i]) THEN SkipWs(s, i + 1) ELSE i

\* \s*\n from i, greedy: the position of the last line feed of the white
\* space run that starts at i, 0 when the run holds none
WsNl(s, i) ==
    LET k == SkipWs(s, i)
        nls == {n \in i..(k - 1) : s[n] = "N"}
    IN  IF nls = {} THEN 0
        ELSE CHOOSE n \in nls : \A m \in nls : m <= n

\* /\*\*\s*\n\s*\*\s*Copyright \(c\) \d{4} Philip L\. Giacalone\s*\n\s*\*\s*\n
\* from i: the position after it, 0 when it does not match
Opening(s, i) ==
    IF ~At(s, i, "O") THEN 0
    ELSE LET n1 == WsNl(s, i + 1) IN
    IF n1 = 0 THEN 0
    ELSE LET a == SkipWs(s, n1 + 1) IN
    IF ~At(s, a, "S") THEN 0
    ELSE LET c == SkipWs(s, a + 1) IN
    IF ~At(s, c, "C") THEN 0
    ELSE LET n2 == WsNl(s, c + 1) IN
    IF n2 = 0 THEN 0
    ELSE LET b == SkipWs(s, n2 + 1) IN
    IF ~At(s, b, "S") THEN 0
    ELSE LET n3 == WsNl(s, b + 1) IN
    IF n3 = 0 THEN 0 ELSE n3 + 1

\* \s*\*/\s*\n from p: the position of its last character, 0 when it fails
Closing(s, p) ==
    LET k == SkipWs(s, p)
    IN  IF At(s, k, "E") THEN WsNl(s, k + 1) ELSE 0

\* (\s*\*.*?\n)*?\s*\*/\s*\n from p: the lazy group leaves first; when the
\* closing fails it takes one more line, the shortest first
RECURSIVE Lines(_, _)
RECURSIVE Line(_, _)
Lines(s, p) ==
    LET c == Closing(s, p)
        k == SkipWs(s, p)
    IN  IF c # 0 THEN c
        ELSE IF At(s, k, "S") \/ At(s, k, "E") THEN Line(s, k + 1)
        ELSE 0

\* .*?\n from n, then the rest of the pattern: each line feed in turn
Line(s, n) ==
    LET nls == {m \in n..Len(s) : s[m] = "N"}
    IN  IF nls = {} THEN 0
        ELSE LET m == CHOOSE m \in nls : \A j \in nls : m <= j
                 r == Lines(s, m + 1)
             IN  IF r # 0 THEN r ELSE Line(s, m + 1)

\* the pattern tried at position i: the match's last position, or 0
MatchAt(s, i) ==
    LET p == Opening(s, i)
    IN  IF p = 0 THEN 0 ELSE Lines(s, p)

\* the leftmost position where the pattern matches, 0 when nowhere
FirstMatch(s) ==
    LET starts == {i \in 1..Len(s) : MatchAt(s, i) # 0}
    IN  IF starts = {} THEN 0
        ELSE CHOOSE i \in starts : \A j \in starts : i <= j

\* MIT_LICENSE_PATTERN.sub(PROPRIETARY_HEADER + '\n\n', content, count=1)
Sub(content) ==
    LET i == FirstMatch(content)
    IN  IF i = 0 THEN content
        ELSE Upto(content, i - 1) \o Replacement
                 \o From(content, MatchAt(content, i) + 1)

\* 'Permission is hereby granted' in content
HasSignatureAlways(content) == TRUE
HasSignature(content) == \E i \in 1..Len(content) : content[i] = "P"


\* new_content != content
ChangedAlways(new, old) == TRUE
Changed(new, old) == new # old

(***************************************************************************)
(* Text mode I/O: open(filepath, 'r' or 'w', encoding='utf-8') reads with  *)
(* universal newlines and writes line feeds as os.linesep.                 *)
(***************************************************************************)
\* f.read(): "\r\n" and "\r" become "\n"
Decode(bytes) ==
    LET tr == [i \in 1..Len(bytes) |->
                 IF bytes[i] = "R" THEN "N"
                 ELSE IF bytes[i] = "N" /\ i > 1 /\ bytes[i - 1] = "R"
                      THEN "" ELSE bytes[i]]
        Kept(t) == t # ""
    IN  SelectSeq(tr, Kept)

\* f.write(new_content): "\n" becomes os.linesep
Encode(text) == ReplaceNl(text, linesep, 1, Len(text))

\* what a write that raises may leave of the truncated file: nothing, or the
\* blocks that reached the disk before the error
PartialWrites(bytes) ==
    {Upto(bytes, k * BlockSize) :
        k \in {j \in 0..Len(bytes) : j * BlockSize < Len(bytes)}}

\* leaving a "with open(...) as f" block, normally or by an exception
ExitWithLeak(hs, h) == hs
ExitWith(hs, h) == hs \ {h}

(***************************************************************************)
(* Paths, the exclusion filter and the globs.                              *)
(***************************************************************************)
extensions == << <<".ts">>, <<".ts", "x">>, <<".js">>, <<".js", "x">> >>

exclusionsNoGit ==
    << <<"node_modules">>, <<"dist">>,
       <<"electron", "/", "node_modules">>,
       <<"electron", "/", "release">>,
       <<"electron", "/", "app">>,
       <<"update_licenses", ".py">>,
       <<"update_licenses", ".sh">> >>
exclusions ==
    << <<"node_modules">>, <<"dist">>,
       <<"electron", "/", "node_modules">>,
       <<"electron", "/", "release">>,
       <<"electron", "/", "app">>,
       <<".git">>,
       <<"update_licenses", ".py">>,
       <<"update_licenses", ".sh">> >>

\* not any(excl in path_str for excl in exclusions)
should_process_file(path_str) ==
    ~ \E k \in 1..Len(exclusions) : Contains(path_str, exclusions[k])

\* the name matches '*' + ext
GlobMatchPrefix(path_str, ext) == Contains(path_str, ext)
GlobMatch(path_str, ext) == EndsWith(path_str, ext)

(***************************************************************************)
(* Sample texts the file contents are built from.                          *)
(***************************************************************************)
\* an MIT header: copyright line, blank comment line, grant line, closer
MitHeader ==
    Concat(<< <<"O", "N">>, <<"W", "S", "W", "C", "N">>, StarOnly,
              <<"W", "S", "W", "P", "X", "N">>, <<"W", "E", "N">> >>)
\* the same block without the signature phrase
PlainHeader ==
    Concat(<< <<"O", "N">>, <<"W", "S", "W", "C", "N">>, StarOnly,
              StarText, <<"W", "E", "N">> >>)
\* an MIT header whose closer is followed by code on the same line
TrailedHeader ==
    Concat(<< <<"O", "N">>, <<"W", "S", "W", "C", "N">>, StarOnly,
              <<"W", "S", "W", "P", "X", "N">>, <<"W", "E", "W", "X", "N">> >>)
\* the signature phrase inside a string literal
Literal == <<"X", "P", "X", "N">>
CodeLine == <<"X", "N">>

Chunks == {MitHeader, PlainHeader, TrailedHeader, Literal, CodeLine,
           Replacement}

RECURSIVE Texts(_)
Texts(n) ==
    IF n = 0 THEN {<<>>}
    ELSE Texts(n - 1) \cup {t \o c : t \in Texts(n - 1), c \in Chunks}

\* the same text with CRLF line ends
ToCRLF(text) == ReplaceNl(text, <<"R", "N">>, 1, Len(text))

Entries == 1..3
Modes == {"ok", "noperm", "badutf8", "readonly", "wfail"}
Kinds == {"file", "dir", "broken", "noaccess"}

Entry(p, k, m) == [path |-> p, kind |-> k, mode |-> m]

Entry2Default == Entry(<<"src", "/", "b", ".ts", "x">>, "file", "ok")

Entry2Options ==
    {Entry(<<"src", "/", "b", ".ts", "x">>, k, "ok") : k \in Kinds}
    \cup {Entry(p, "file", "ok") : p \in {
            <<"node_modules", "/", "m", ".js">>,
            <<"src", "/", "dist", "/", "m", ".js", "x">>,
            <<"src", "/", "dist", "ance", ".js">>,
            <<"electron", "/", "release", "/", "m", ".ts">>,
            <<"electron", "/", "app", "/", "m", ".ts", "x">>,
            <<".git", "/", "m", ".js">>,
            <<"src", "/", "update_licenses", ".py", ".js">>,
            <<"src", "/", "update_licenses", ".sh", ".js">>,
            <<"electron", "/", "m", ".js", "x">>,
            <<"src", "/", "d", ".py">> }}

(***************************************************************************)
(* The state.                                                              *)
(***************************************************************************)
VARIABLES
    tree,           \* entry -> its path, kind and I/O behaviour
    disk,           \* entry -> the bytes of the file
    orig,           \* the bytes before the first run
    start,          \* the bytes when the current run began
    run,            \* the number of the current run
    pc,             \* where the run is
    ext,            \* index of the glob being iterated
    pending,        \* what the glob has yet to yield
    filepath,       \* update_file's argument
    content,        \* update_file's local
    new_content,    \* update_file's local
    exc,            \* the exception in flight or last caught
    handles,        \* the open file handles
    updated_count,  \* main's counter
    out,            \* the lines printed in this run
    calls           \* the file operations of this run

vars == <<tree, disk, orig, start, run, pc, ext, pending, filepath, content,
          new_content, exc, handles, updated_count, out, calls>>

path_str(f) == tree[f].path

\* root.rglob('*' + ext): the entries whose name matches, in listing order
RECURSIVE Listing(_, _, _)
Listing(t, i, f) ==
    IF f > 3 THEN <<>>
    ELSE (IF GlobMatch(t[f].path, extensions[i]) THEN <<f>> ELSE <<>>)
             \o Listing(t, i, f + 1)

\* The trees the runs start from.  Entry 1 is a source file whose content,
\* line ends and I/O behaviour vary; entry 2 varies in path and kind; entry 3
\* is a plain source file with an MIT header.  The longest texts and the CRLF
\* files come with the default entry 2.
Init ==
    /\ \E m \in Modes, e2 \in Entry2Options,
          t \in Texts(MaxChunks), crlf \in BOOLEAN :
          /\ \/ e2 = Entry2Default
             \/ (t \in Texts(MaxChunks - 1) /\ ~crlf)
          /\ tree = [f \in Entries |->
                    CASE f = 1 -> Entry(<<"src", "/", "a", ".ts">>, "file", m)
                      [] f = 2 -> e2
                      [] f = 3 -> Entry(<<"lib", "/", "c", ".js">>, "file", "ok")]
          /\ disk = [f \in Entries |->
                    IF f = 1 THEN (IF crlf THEN ToCRLF(t) ELSE t)
                    ELSE MitHeader \o CodeLine]
    /\ orig = disk
    /\ start = disk
    /\ run = 1
    /\ pc = "loop"
    /\ ext = 1
    /\ pending = Listing(tree, 1, 1)
    /\ filepath = 0
    /\ content = <<>>
    /\ new_content = <<>>
    /\ exc = "none"
    /\ handles = {}
    /\ updated_count = 0
    /\ out = <<>>
    /\ calls = <<>>


(***************************************************************************)
(* main: the loops over the extensions and over what each glob yields.     *)
(***************************************************************************)
Call(op, f) == Append(calls, <<op, f>>)
OutLine(kind, f, detail) == [kind |-> kind, path |-> f, detail |-> detail]

UpdateFileVars == <<filepath, content, new_content, handles>>

\* for ext in extensions: the glob is exhausted, the next one starts
NextExt ==
    /\ pc = "loop"
    /\ pending = <<>>
    /\ ext < Len(extensions)
    /\ ext' = ext + 1
    /\ pending' = Listing(tree, ext + 1, 1)
    /\ UNCHANGED <<tree, disk, orig, start, run, pc, exc, updated_count, out,
                   calls, UpdateFileVars>>

\* should_process_file(filepath) is False: the path is skipped
SkipExcluded ==
    /\ pc = "loop"
    /\ pending # <<>>
    /\ ~should_process_file(path_str(Head(pending)))
    /\ pending' = Tail(pending)
    /\ UNCHANGED <<tree, disk, orig, start, run, pc, ext, exc, updated_count,
                   out, calls, UpdateFileVars>>

\* filepath.is_file() is False: a directory, or a symlink to nothing
SkipNotFile ==
    /\ pc = "loop"
    /\ pending # <<>>
    /\ should_process_file(path_str(Head(pending)))
    /\ tree[Head(pending)].kind \in {"dir", "broken"}
    /\ pending' = Tail(pending)
    /\ UNCHANGED <<tree, disk, orig, start, run, pc, ext, exc, updated_count,
                   out, calls, UpdateFileVars>>

\* filepath.is_file() raises (stat is refused): nothing in main catches it
IsFileRaises ==
    /\ pc = "loop"
    /\ pending # <<>>
    /\ should_process_file(path_str(Head(pending)))
    /\ tree[Head(pending)].kind = "noaccess"
    /\ pc' = "crashed"
    /\ exc' = "is_file"
    /\ pending' = Tail(pending)
    /\ UNCHANGED <<tree, disk, orig, start, run, ext, updated_count, out,
                   calls, UpdateFileVars>>

\* update_file(filepath) is called
CallUpdateFile ==
    /\ pc = "loop"
    /\ pending # <<>>
    /\ should_process_file(path_str(Head(pending)))
    /\ tree[Head(pending)].kind = "file"
    /\ filepath' = Head(pending)
    /\ pending' = Tail(pending)
    /\ pc' = "open_r"
    /\ UNCHANGED <<tree, disk, orig, start, run, ext, content, new_content,
                   exc, handles, updated_count, out, calls>>

(***************************************************************************)
(* update_file, statement by statement.                                    *)
(***************************************************************************)
\* with open(filepath, 'r', encoding='utf-8') as f
OpenRead ==
    /\ pc = "open_r"
    /\ IF tree[filepath].mode = "noperm"
       THEN /\ pc' = "except"
            /\ exc' = "open_r"
            /\ calls' = Append(Call("open_r", filepath), <<"raise", filepath>>)
            /\ UNCHANGED handles
       ELSE /\ pc' = "read"
            /\ handles' = handles \cup {<<filepath, "r">>}
            /\ calls' = Call("open_r", filepath)
            /\ UNCHANGED exc
    /\ UNCHANGED <<tree, disk, orig, start, run, ext, pending, filepath,
                   content, new_content, updated_count, out>>

\* content = f.read(), and the with block is left
Read ==
    /\ pc = "read"
    /\ handles' = ExitWith(handles, <<filepath, "r">>)
    /\ IF tree[filepath].mode = "badutf8"
       THEN /\ pc' = "except"
            /\ exc' = "read"
            /\ calls' = Call("raise", filepath)
            /\ UNCHANGED content
       ELSE /\ pc' = "test"
            /\ content' = Decode(disk[filepath])
            /\ calls' = Call("read_ok", filepath)
            /\ UNCHANGED exc
    /\ UNCHANGED <<tree, disk, orig, start, run, ext, pending, filepath,
                   new_content, updated_count, out>>

\* the signature test, the substitution and the comparison
Test ==
    /\ pc = "test"
    /\ IF HasSignature(content)
       THEN /\ new_content' = Sub(content)
            /\ calls' = Call("sub", filepath)
            /\ pc' = IF Changed(Sub(content), content)
                     THEN "open_w" ELSE "ret_false"
       ELSE /\ pc' = "ret_false"
            /\ UNCHANGED <<new_content, calls>>
    /\ UNCHANGED <<tree, disk, orig, start, run, ext, pending, filepath,
                   content, exc, handles, updated_count, out>>

\* with open(filepath, 'w', encoding='utf-8') as f: the file is truncated
OpenWrite ==
    /\ pc = "open_w"
    /\ IF tree[filepath].mode = "readonly"
       THEN /\ pc' = "except"
            /\ exc' = "open_w"
            /\ calls' = Append(Call("open_w", filepath), <<"raise", filepath>>)
            /\ UNCHANGED <<disk, handles>>
       ELSE /\ pc' = "write"
            /\ disk' = [disk EXCEPT ![filepath] = <<>>]
            /\ handles' = handles \cup {<<filepath, "w">>}
            /\ calls' = Call("open_w", filepath)
            /\ UNCHANGED exc
    /\ UNCHANGED <<tree, orig, start, run, ext, pending, filepath, content,
                   new_content, updated_count, out>>

\* f.write(new_content), and the with block is left (the buffer is flushed)
Write ==
    /\ pc = "write"
    /\ handles' = ExitWith(handles, <<filepath, "w">>)
    /\ IF tree[filepath].mode = "wfail"
       THEN /\ \E left \in PartialWrites(Encode(new_content)) :
                  disk' = [disk EXCEPT ![filepath] = left]
            /\ pc' = "except"
            /\ exc' = "write"
            /\ calls' = Call("raise", filepath)
       ELSE /\ disk' = [disk EXCEPT ![filepath] = Encode(new_content)]
            /\ pc' = "ret_true"
            /\ calls' = Call("write_ok", filepath)
            /\ UNCHANGED exc
    /\ UNCHANGED <<tree, orig, start, run, ext, pending, filepath, content,
                   new_content, updated_count, out>>

\* except Exception as e: print(f"Error processing {filepath}: {e}")
Except ==
    /\ pc = "except"
    /\ out' = Append(out, OutLine("Error", filepath, exc))
    /\ pc' = "ret_false"
    /\ UNCHANGED <<tree, disk, orig, start, run, ext, pending, exc,
                   updated_count, calls, UpdateFileVars>>

\* return True; main prints "Updated: ..." and counts the file
ReturnTrue ==
    /\ pc = "ret_true"
    /\ calls' = Call("return_true", filepath)
    /\ out' = Append(out, OutLine("Updated", filepath, "none"))
    /\ updated_count' = updated_count + 1
    /\ pc' = "loop"
    /\ UNCHANGED <<tree, disk, orig, start, run, ext, pending, exc,
                   UpdateFileVars>>

\* return False (after the except block the name e is gone)
ReturnFalse ==
    /\ pc = "ret_false"
    /\ calls' = Call("return_false", filepath)
    /\ exc' = "none"
    /\ pc' = "loop"
    /\ UNCHANGED <<tree, disk, orig, start, run, ext, pending,
                   updated_count, out, UpdateFileVars>>

\* print(f"\nTotal files updated: {updated_count}")
Finish ==
    /\ pc = "loop"
    /\ pending = <<>>
    /\ ext = Len(extensions)
    /\ out' = Append(out, OutLine("Total", 0, updated_count))
    /\ pc' = "done"
    /\ UNCHANGED <<tree, disk, orig, start, run, ext, pending, exc,
                   updated_count, calls, UpdateFileVars>>

\* the tool is run again on the tree the last run left
Rerun ==
    /\ pc \in {"done", "crashed"}
    /\ run < MaxRuns
    /\ run' = run + 1
    /\ start' = disk
    /\ pc' = "loop"
    /\ ext' = 1
    /\ pending' = Listing(tree, 1, 1)
    /\ filepath' = 0
    /\ content' = <<>>
    /\ new_content' = <<>>
    /\ exc' = "none"
    /\ updated_count' = 0
    /\ out' = <<>>
    /\ calls' = <<>>
    /\ UNCHANGED <<tree, disk, orig, handles>>

Next ==
    \/ NextExt
    \/ SkipExcluded
    \/ SkipNotFile
    \/ IsFileRaises
    \/ CallUpdateFile
    \/ OpenRead
    \/ Read
    \/ Test
    \/ OpenWrite
    \/ Write
    \/ Except
    \/ ReturnTrue
    \/ ReturnFalse
    \/ Finish
    \/ Rerun

Spec == Init /\ [][Next]_vars


(***************************************************************************)
(* The vocabulary of the properties.                                       *)
(***************************************************************************)
\* the signature phrase occurs in the text
SigIn(text) == \E i \in DOMAIN text : text[i] = "P"

Count(op, f) == Cardinality({i \in DOMAIN calls : calls[i] = <<op, f>>})
Did(op, f) == \E i \in DOMAIN calls : calls[i] = <<op, f>>

\* the lines of one kind printed for f in this run
Printed(kind, f) ==
    {i \in DOMAIN out : out[i].kind = kind /\ out[i].path = f}
UpdatedPaths == {out[i].path : i \in {j \in DOMAIN out : out[j].kind = "Updated"}}

\* the text update_file sees when it reads f at the start of the run
TextBefore(f) == Decode(start[f])

\* f is a regular file that one of the globs yields and the filter lets pass
Candidate(f) ==
    /\ tree[f].kind = "file"
    /\ should_process_file(path_str(f))
    /\ \E i \in DOMAIN extensions : GlobMatch(path_str(f), extensions[i])

\* the text holds no second matching block after its first one
AtMostOneBlock(text) ==
    LET i == FirstMatch(text)
    IN  i = 0 \/ FirstMatch(From(text, MatchAt(text, i) + 1)) = 0

SingleBlockTree == \A f \in Entries : AtMostOneBlock(Decode(orig[f]))

(***************************************************************************)
(* C1.  Idempotence of a run.                                              *)
(***************************************************************************)
\* C1 as stated: running the tool twice leaves every file as running it
\* once does, and the second run updates zero files.  (The reason the claim
\* gives, that no candidate file contains the signature phrase after the
\* first run, is left out here: a file with the phrase in a string literal
\* already breaks it.)
C1_AsStated ==
    (run = 2 /\ pc = "done") =>
        /\ disk = start
        /\ updated_count = 0
        /\ out[Len(out)].detail = 0

\* no file differs from what it held when the run began, and the run has
\* counted and printed no update
NothingUpdated ==
    /\ disk = start
    /\ updated_count = 0
    /\ \A f \in Entries : Printed("Updated", f) = {}
    /\ pc = "done" => out[Len(out)] = [kind |-> "Total", path |-> 0,
                                       detail |-> 0]

\* C1 amended: when no file of the tree holds a second matching block after
\* its first one, every run after the first changes no file, prints no
\* "Updated" line and reports a total of 0.
C1_Idempotent == run >= 2 => (NothingUpdated \/ ~SingleBlockTree)

\* a second run has ended on a tree the first run changed, and has applied
\* the substitution to a file that still holds the signature phrase
C1_Witness ==
    /\ run = 2 /\ pc = "done" /\ SingleBlockTree
    /\ start[1] # orig[1]
    /\ SigIn(TextBefore(1)) /\ Did("sub", 1)

(***************************************************************************)
(* C2.  What update_file writes back.                                      *)
(***************************************************************************)
\* the bytes of f are the original bytes before the first match, the
\* replacement, and the original bytes after the first match
ByteExact(f) ==
    LET b == start[f]
        c == Decode(b)
        i == FirstMatch(c)
        j == MatchAt(c, i)
    IN  \E p \in 0..Len(b), q \in 1..(Len(b) + 1) :
            /\ p < q
            /\ Decode(Upto(b, p)) = Upto(c, i - 1)
            /\ Decode(From(b, q)) = From(c, j + 1)
            /\ disk[f] = Upto(b, p) \o Replacement \o From(b, q)

\* C2 as stated: every file that was written holds exactly the original
\* bytes before the first match, PROPRIETARY_HEADER and two line feeds, and
\* the original bytes after the first match, line ends included.
C2_AsStated ==
    \A f \in Entries : Did("write_ok", f) => ByteExact(f)

(***************************************************************************)
(* C3.  No-match cases are no-ops.                                         *)
(***************************************************************************)
NoMatchCase(f) == ~SigIn(TextBefore(f)) \/ FirstMatch(TextBefore(f)) = 0

NoOp(f) ==
    /\ ~Did("open_w", f)
    /\ disk[f] = start[f]
    /\ ~Did("return_true", f)
    /\ ~(pc = "ret_true" /\ filepath = f)
    /\ Printed("Updated", f) = {}
    /\ Printed("Error", f) = {}

\* C3 as stated: a file without the signature phrase, or with it but without
\* a matching block, is never opened for writing, keeps its content, makes
\* update_file return False and gets no "Updated" or "Error processing" line.
C3_AsStated == \A f \in Entries : NoMatchCase(f) => NoOp(f)

\* C3 amended: the same, for every such file that update_file has read
\* successfully.
C3_NoMatchNoOp ==
    \A f \in Entries : NoOp(f) \/ ~Did("read_ok", f) \/ ~NoMatchCase(f)

\* a run has ended in which update_file returned False for a file that holds
\* the signature phrase and no matching block
C3_Witness ==
    /\ pc = "done"
    /\ \E f \in Entries :
          /\ SigIn(TextBefore(f)) /\ FirstMatch(TextBefore(f)) = 0
          /\ Did("sub", f) /\ Did("return_false", f)

(***************************************************************************)
(* C4.  Exclusion correctness.                                             *)
(***************************************************************************)
ListedExclusions ==
    { <<"node_modules">>, <<"dist">>, <<"electron", "/", "release">>,
      <<"electron", "/", "app">>, <<".git">>,
      <<"update_licenses", ".py">>, <<"update_licenses", ".sh">> }

Listed(f) == \E x \in ListedExclusions : Contains(path_str(f), x)

\* C4: a path that contains one of the exclusion substrings is never opened
\* for reading or writing, is never counted as updated, keeps its content.
C4_ExcludedUntouched ==
    \A f \in Entries :
        Listed(f) =>
            /\ \A i \in DOMAIN calls : calls[i][2] # f
            /\ \A i \in DOMAIN out : out[i].path # f
            /\ filepath # f
            /\ disk[f] = orig[f]

\* a run has ended that updated some file and left alone an excluded regular
\* file with a matching extension, the signature phrase and a matching header
C4_Witness ==
    /\ pc = "done" /\ updated_count >= 1
    /\ Listed(2) /\ tree[2].kind = "file"
    /\ \E i \in DOMAIN extensions : GlobMatch(path_str(2), extensions[i])
    /\ SigIn(Decode(disk[2])) /\ FirstMatch(Decode(disk[2])) # 0

(***************************************************************************)
(* C5.  Per-file failure containment.                                      *)
(***************************************************************************)
\* once update_file has returned for a file whose read or write raised,
\* there is exactly one "Error processing" line for it, it returned False
\* and it is not counted
ErrorReported(f) ==
    /\ Cardinality(Printed("Error", f)) = 1
    /\ Printed("Updated", f) = {}
    /\ ~Did("return_true", f)
    /\ ~(pc = "ret_true" /\ filepath = f)

\* the run has ended
Ended == pc \in {"done", "crashed"}

\* every candidate file was handed to update_file and the total was printed
AllProcessed ==
    /\ \A f \in Entries : Candidate(f) => Did("open_r", f)
    /\ out # <<>>
    /\ out[Len(out)].kind = "Total"

\* C5 as stated: when the read or the write of a candidate file raises,
\* update_file prints one "Error processing" line and returns False, and
\* the run goes on to process every later candidate file and to print the
\* total.
C5_AsStated ==
    \A f \in Entries :
        (Did("raise", f) /\ ~(pc = "except" /\ filepath = f)) =>
            /\ ErrorReported(f)
            /\ Ended => AllProcessed

\* What holds of update_file alone (C5 without the traversal): an exception
\* of a read or a write never ends the run, it is reported once, and a run
\* that reaches its end has processed every candidate file.
C5_Contained ==
    /\ pc = "crashed" => exc = "is_file"
    /\ \A f \in Entries :
          (Did("raise", f) /\ ~(pc = "except" /\ filepath = f)) =>
              ErrorReported(f)
    /\ \A f \in Entries : Printed("Error", f) # {} => Did("raise", f)
    /\ pc = "done" => AllProcessed

(***************************************************************************)
(* C6.  A failed write leaves the file as it was.                          *)
(***************************************************************************)
\* C6 as stated: when the write step fails, at the open or at the write, the
\* file holds what it held before the write was attempted.
C6_AsStated ==
    (pc = "except" /\ exc \in {"open_w", "write"}) =>
        disk[filepath] = start[filepath]

(***************************************************************************)
(* C7.  Traversal failures do not abort the run.                           *)
(***************************************************************************)
\* C7 as stated: a failure of the iteration or of the test of one entry
\* never ends the run.
C7_AsStated == pc # "crashed"

(***************************************************************************)
(* C8.  Reporting matches effects.                                         *)
(***************************************************************************)
\* C8 as stated: at the end of a run the total printed is the number of
\* "Updated" lines, and the paths they name are exactly the files whose
\* content differs from the content before the run.
C8_AsStated ==
    pc = "done" =>
        /\ out[Len(out)].detail
              = Cardinality({i \in DOMAIN out : out[i].kind = "Updated"})
        /\ UpdatedPaths = {f \in Entries : disk[f] # start[f]}

(***************************************************************************)
(* C9.  At-most-once processing.                                           *)
(***************************************************************************)
\* C9: within one run every path is opened for reading at most once and for
\* writing at most once, the substitution is applied to it at most once,
\* and it is opened for writing only after it was read successfully.
C9_AtMostOnce ==
    \A f \in Entries :
        /\ Count("open_r", f) <= 1
        /\ Count("open_w", f) <= 1
        /\ Count("sub", f) <= 1
        /\ \A j \in DOMAIN calls :
              calls[j] = <<"open_w", f>> =>
                  \E i \in 1..(j - 1) : calls[i] = <<"read_ok", f>>

\* a run has ended that rewrote a .ts, a .tsx and a .js file
C9_Witness ==
    /\ pc = "done"
    /\ EndsWith(path_str(2), <<".ts", "x">>)
    /\ \A f \in Entries : Did("write_ok", f)

(***************************************************************************)
(* C10.  File handles are scoped per file and per step.                    *)
(***************************************************************************)
\* C10: at most one handle is open; the read handle is open only while the
\* file is read and the write handle only while it is written; no handle is
\* open at the signature test, when the write handle is about to be opened,
\* in the exception handler, or when update_file returns.
C10_HandlesScoped ==
    /\ Cardinality(handles) <= 1
    /\ pc = "read" => handles = {<<filepath, "r">>}
    /\ pc = "write" => handles = {<<filepath, "w">>}
    /\ pc \notin {"read", "write"} => handles = {}

\* update_file is in its exception handler after a read or a write raised
\* inside the with block
C10_Witness ==
    /\ pc = "except"
    /\ exc \in {"read", "write"}
    /\ handles = {}

=============================================================================
